---- MODULE Spec2Model ----
(***************************************************************************)
(* SiteGuardian: the crawl-and-snapshot engine (core/crawler.py) and the   *)
(* backup / retention engine (core/backup_manager.py), with the parts of   *)
(* the persistence layer (core/models.py, config/database.py) and of the   *)
(* path utilities (core/utils.py) they rest on.                            *)
(***************************************************************************)
EXTENDS Integers, Sequences, FiniteSets, TLC

(***************************************************************************)
(* Bounds of the model.                                                    *)
(***************************************************************************)
MaxRuns == 4
MaxLimit == 3
MaxDepth == 2
MaxHistory == 5
MaxKept == 4
MaxWorkers == 2

(***************************************************************************)
(* Program constants.                                                      *)
(***************************************************************************)
StopAfterAttempt == 3
HotWindow == 2
DefaultRetention == 10
MinRetention == 1
MAX_WORKERS == 8
DefaultWorkers == 8

(***************************************************************************)
(* Helpers on sets and sequences.                                          *)
(***************************************************************************)
Max(a, b) == IF a >= b THEN a ELSE b

SetMax(S) == CHOOSE x \in S : \A y \in S : y <= x

RECURSIVE SortDesc(_)
SortDesc(S) ==
  IF S = {} THEN <<>> ELSE <<SetMax(S)>> \o SortDesc(S \ {SetMax(S)})

Range(s) == {s[i] : i \in 1..Len(s)}

Drop(s, n) == IF n >= Len(s) THEN <<>> ELSE SubSeq(s, n + 1, Len(s))

\* the one element of a set; Only({F(x) : x \in {v}}) is F(v) with v
\* evaluated once
Only(S) == CHOOSE y \in S : TRUE

RECURSIVE SumSizes(_)
SumSizes(s) == IF s = <<>> THEN 0 ELSE Head(s).size + SumSizes(Tail(s))

(***************************************************************************)
(* The site being crawled (the environment).  A URL is what urlparse makes *)
(* of it: a host, the path split at "/" into segments, each a stem and a   *)
(* suffix, a flag for a trailing "/", and a query string.                  *)
(***************************************************************************)
Seg(stem, suffix) == [stem |-> stem, suffix |-> suffix]

Url(host, segs, slash) == [host |-> host, segs |-> segs, slash |-> slash, query |-> ""]

Seed == Url("site", <<>>, TRUE)
PageA == Url("site", <<Seg("a", "")>>, FALSE)
PageB == Url("site", <<Seg("b", "")>>, FALSE)
Doc == Url("site", <<Seg("doc", ".pdf")>>, FALSE)
Img == Url("site", <<Seg("logo", ".png")>>, FALSE)
Icon == Url("site", <<Seg("icon", ".png")>>, FALSE)
Ext == Url("other", <<Seg("x", "")>>, FALSE)

\* a second site, of URLs that are not in the usual form: the root written
\* with another case and no path, a directory URL on the host in capitals, a
\* path that begins with two separators, and a URL that has no host
Seed2 == Url("Site", <<>>, FALSE)
Upper == Url("SITE", <<Seg("c", "")>>, TRUE)
Slashy == Url("site", <<Seg("", ""), Seg("d", "")>>, FALSE)
Mail == Url("", <<Seg("x", "")>>, FALSE)

\* a third site, where the type of a file does not show in its URL: a PDF
\* report at a path with no extension, and a page at a path that ends in .php
Seed3 == Url("files", <<>>, TRUE)
Blob == Url("files", <<Seg("report", "")>>, FALSE)
Php == Url("files", <<Seg("page", ".php")>>, FALSE)
Leaf == Url("files", <<Seg("leaf", "")>>, FALSE)

Urls ==
  {Seed, PageA, PageB, Doc, Img, Icon, Ext, Seed2, Upper, Slashy, Mail,
   Seed3, Blob, Php, Leaf}

\* the anchors of each page, resolved against the page's URL
Anchors(u) ==
  CASE u = Seed -> {PageA, Doc, Ext}
    [] u = PageA -> {Seed, PageB}
    [] u = PageB -> {PageB}
    [] u = Seed2 -> {Upper, Slashy, Mail, Ext}
    [] u = Seed3 -> {Blob, Php}
    [] u = Php -> {Leaf}
    [] OTHER -> {}

\* the <img src> values of each page, in document order, resolved
Images(u) ==
  CASE u = Seed -> <<Img>>
    [] u = PageA -> <<Img, Icon, Img>>
    [] OTHER -> <<>>

\* the Content-Type header the server sends for a URL
ContentType(u) ==
  CASE u \in {Doc, Blob} -> "application/pdf"
    [] u \in {Img, Icon} -> "image/png"
    [] OTHER -> "text/html"

\* the number of bytes save_file reports for a URL's file
Size(u) ==
  CASE u = Seed -> 2
    [] u = PageA -> 3
    [] u = PageB -> 4
    [] u = Doc -> 5
    [] u = Img -> 7
    [] u = Icon -> 11
    [] OTHER -> 1

(***************************************************************************)
(* core/utils.py                                                           *)
(***************************************************************************)
\* str.lower() on the hosts of the two sites
Lower(h) == IF h \in {"Site", "SITE"} THEN "site" ELSE h

domain_from_url(u) == Lower(u.host)

EveryLinkInternal(base_domain, u) == TRUE

is_internal_link(base_domain, u) == u.host = "" \/ Lower(u.host) = base_domain

IndexHtml == Seg("index", ".html")

\* a path split at "/": the empty segment before a leading "/"
Root == Seg("", "")

\* urlparse(full_url).path split at "/": empty for a URL that ends with its
\* host, and the segments after a leading "/" otherwise
PathOf(u) == IF u.segs = <<>> /\ ~u.slash THEN <<>> ELSE <<Root>> \o u.segs

\* a path is absolute when it begins with "/"
IsAbsolute(p) == p # <<>> /\ Head(p) = Root

\* lines 38-43: index.html is put after a path that ends in "/" or whose
\* last segment has no dot
WithIndex(path, slash) ==
  IF slash \/ path = <<>> \/ path[Len(path)].suffix = ""
    THEN path \o <<IndexHtml>>
    ELSE path

\* lines 45-46: one leading "/" is removed (p = p[1:])
StripLeading(p) == IF IsAbsolute(p) THEN Tail(p) ELSE p

\* the relative path as a sequence of segments: index.html is added, one
\* leading "/" is removed, then the query is put into the file's name
url_to_relpath(base_url, u) ==
  LET p == StripLeading(WithIndex(PathOf(u), u.slash))
  IN  IF u.query = ""
        THEN p
        ELSE LET last == p[Len(p)]
             IN  SubSeq(p, 1, Len(p) - 1) \o
                   <<Seg(<<last.stem, "__", u.query>>,
                         IF last.suffix = "" THEN ".html" ELSE last.suffix)>>

Suffix(p) == IF p = <<>> THEN "" ELSE p[Len(p)].suffix

with_suffix(p, sfx) ==
  SubSeq(p, 1, Len(p) - 1) \o <<Seg(p[Len(p)].stem, sfx)>>

(***************************************************************************)
(* core/crawler.py: fetch, with its retry decorator.  The network answers  *)
(* each URL in one of these ways for the length of a run.                  *)
(***************************************************************************)
Outcomes == {"up", "flaky", "down", "nowrite"}

\* and with them: one timeout and then an answer, an HTTP error status each
\* time, a URL that requests refuses to send
Responses == Outcomes \cup {"slow", "notfound", "malformed"}

\* what attempt n of requests.get / raise_for_status gives
AttemptResult(e, n) ==
  CASE e = "down" -> "ConnectionError"
    [] e = "flaky" -> IF n < StopAfterAttempt THEN "ConnectionError" ELSE "ok"
    [] e = "slow" -> IF n < 2 THEN "Timeout" ELSE "ok"
    [] e = "notfound" -> "HTTPError"
    [] e = "malformed" -> "InvalidURL"
    [] OTHER -> "ok"

\* the classes an exception of requests is an instance of
Bases(err) ==
  IF err \in {"ConnectionError", "Timeout", "HTTPError", "InvalidURL"}
    THEN {err, "RequestException"}
    ELSE {err}

\* retry_if_exception_type((RequestException, Timeout, ConnectionError))
Retryable(err) ==
  Bases(err) \cap {"RequestException", "Timeout", "ConnectionError"} # {}

fetchOnce(e, n) ==
  LET r == AttemptResult(e, n)
  IN  [ok |-> r = "ok", attempts |-> n, err |-> IF r = "ok" THEN "none" ELSE r]

\* the decorated fetch from attempt n on: the response of the first attempt
\* that raises nothing; an exception that the retry condition takes is
\* followed by another attempt until attempt 3, whose exception is raised
\* again (reraise=True)
RECURSIVE fetchFrom(_, _)
fetchFrom(e, n) ==
  LET r == AttemptResult(e, n)
  IN  IF r = "ok"
        THEN [ok |-> TRUE, attempts |-> n, err |-> "none"]
        ELSE IF Retryable(r) /\ n < StopAfterAttempt
               THEN fetchFrom(e, n + 1)
               ELSE [ok |-> FALSE, attempts |-> n, err |-> r]

fetch(e) == fetchFrom(e, 1)

\* save_file raises when the file cannot be written
SaveOk(e) == e # "nowrite"

\* the ways a request for u may end, the network being as it is: a URL with
\* no host is one that requests refuses
Answers(u, net) == IF u.host = "" THEN {"malformed"} ELSE net

(***************************************************************************)
(* State.                                                                  *)
(***************************************************************************)
VARIABLES
  website,    \* the Website row of the target
  coll,       \* website.snapshots as loaded on the live Website instance
  snapshots,  \* the BackupSnapshot objects, by id, with their BackupFile rows
  dirs,       \* snapshot directories on disk: timestamp -> files in it
  zips,       \* snapshot archives on disk: timestamp -> entries in it
  clock,      \* the current UTC second
  network,    \* the ways the network may answer a URL (fixed)
  disk,       \* the ways the filesystem may fail a compression (fixed)
  quota,      \* run_backup calls still to be made
  asked,      \* the website_id of the last run_backup call, or 0
  pc,         \* where run_backup stands
  run,        \* the locals of the run_backup / crawl_website in progress
  created,    \* id of the snapshot the current or last run committed, or 0
  result,     \* what the last run_backup returned
  raised,     \* the exception in flight, or "none"
  pass,       \* what the last enforce_retention did
  notifier    \* whether a notification can be delivered, and the last one's fate

vars == <<website, coll, snapshots, dirs, zips, clock, network, disk, quota,
          asked, pc, run,
          created, result, raised, pass, notifier>>

\* Website.last_status: None, f"OK ({n} files, {b} bytes)" or f"ERROR: {e}"
NoStatus == [text |-> "", files |-> 0, bytes |-> 0, msg |-> ""]
OkStatus(n, b) == [text |-> "OK", files |-> n, bytes |-> b, msg |-> ""]
ErrorStatus(e) == [text |-> "ERROR: ", files |-> 0, bytes |-> 0, msg |-> e]

Unloaded == [loaded |-> FALSE, ids |-> {}]
Loaded(ids) == [loaded |-> TRUE, ids |-> ids]

NoEnv == [u \in Urls |-> "unknown"]
NoCalls == [u \in Urls |-> 0]

NoRun ==
  [ts |-> 0, current_depth |-> 0, to_visit |-> {}, futures |-> {},
   visited_pages |-> {}, url_map |-> <<>>, files_meta |-> <<>>,
   html |-> <<>>, env |-> NoEnv, calls |-> NoCalls,
   running |-> {}, ready |-> {}]

\* the desktop service and the mail server work, or may fail as well
Working == [delivers |-> {TRUE}, last |-> "none"]
Unreliable == [delivers |-> BOOLEAN, last |-> "none"]

NoPass ==
  [done |-> FALSE, raised |-> "none", zipped |-> {}, pruned |-> {},
   faulty |-> FALSE, gone |-> {}, seen |-> <<>>]

MetadataJson == <<Seg("metadata", ".json")>>

WebsiteId == 1
WebsiteIds == {1, 2}

(***************************************************************************)
(* The filesystem under BACKUP_ROOT/<domain>.                              *)
(***************************************************************************)
Without(f, k) == [x \in DOMAIN f \ {k} |-> f[x]]

With(f, k, v) == [x \in DOMAIN f \cup {k} |-> IF x = k THEN v ELSE f[x]]

\* snap_dir.mkdir(parents=True, exist_ok=True)
Mkdir(d, p) == IF p \in DOMAIN d THEN d ELSE With(d, p, {})

\* full_path.write_bytes(content) under dest_root
WriteFile(d, p, rel) == With(d, p, (IF p \in DOMAIN d THEN d[p] ELSE {}) \cup {rel})

(***************************************************************************)
(* core/crawler.py: crawl_website.                                         *)
(***************************************************************************)
FileMeta(u, rel, ct) ==
  [url |-> u, rel_path |-> rel, size |-> Size(u), content_type |-> ct]

\* line 83: resp.text for a Content-Type that has "html" in it or is empty,
\* and "" for any other
HasText(content_type) == content_type \in {"text/html", ""}

\* lines 132-138: the record of a page, whose file is the prettified soup of
\* its text
PageMeta(u, rel) ==
  [FileMeta(u, rel, "text/html") EXCEPT
     !.size = IF HasText(ContentType(u)) THEN @ ELSE 0]

\* extract_links on the text "": no link, and no asset in any group
NoLinks == [links |-> {}, assets |-> <<>>]

\* list(dict.fromkeys(xs)): unique, first-seen order
RECURSIVE Unique(_)
Unique(s) ==
  IF s = <<>> THEN <<>>
  ELSE LET r == Unique(SubSeq(s, 1, Len(s) - 1))
       IN  IF s[Len(s)] \in Range(r) THEN r ELSE Append(r, s[Len(s)])

extract_links_of_every_group(u, include_images) ==
  [links |-> Anchors(u), assets |-> Unique(Images(u))]

\* extract_links: the anchors, and the asset lists of the enabled groups
extract_links(u, include_images) ==
  [links |-> Anchors(u),
   assets |-> IF include_images THEN Unique(Images(u)) ELSE <<>>]

\* the asset loop of one page: fetch, save, map and record each in-domain
\* asset in turn; a failure is logged and the loop goes on
RECURSIVE SaveAssets(_, _, _, _)
SaveAssets(assets, st, env, base_url) ==
  IF assets = <<>> THEN st
  ELSE
    LET a == Head(assets)
    IN  IF ~is_internal_link(domain_from_url(base_url), a)
          THEN SaveAssets(Tail(assets), st, env, base_url)
          ELSE
            LET called == [st EXCEPT !.calls[a] = @ + 1]
                a_rel == url_to_relpath(base_url, a)
                saved ==
                  [called EXCEPT
                     !.written = @ \cup {a_rel},
                     !.url_map = With(@, a, a_rel),
                     !.files_meta = Append(@, FileMeta(a, a_rel, ContentType(a)))]
            IN  IF fetch(env[a]).ok /\ SaveOk(env[a])
                  THEN SaveAssets(Tail(assets), saved, env, base_url)
                  ELSE SaveAssets(Tail(assets), called, env, base_url)

\* the URLs the a, img, link and script elements of the page at u name
Targets(u) == Anchors(u) \cup Range(Images(u))

RewriteEveryLink(targets, url_map) == targets

\* core/utils.py, rewrite_html_links: the attribute of an element is set to
\* the local path when its URL is a key of url_map, and is left as it is
\* otherwise; the result is the set of URLs whose attributes were set
rewrite_html_links(targets, url_map) == {l \in targets : l \in DOMAIN url_map}

EnqueueAtEveryLevel(to_visit, links, visited_pages, base_domain, current_depth, depth) ==
  to_visit \cup {l \in links : is_internal_link(base_domain, l) /\ l \notin visited_pages}

\* lines 141-145: below the last level, the in-domain links of the page that
\* are not visited pages are appended to to_visit
Enqueue(to_visit, links, visited_pages, base_domain, current_depth, depth) ==
  IF current_depth < depth
    THEN to_visit \cup {l \in links : is_internal_link(base_domain, l) /\ l \notin visited_pages}
    ELSE to_visit

\* the page's updates, were they made to the collections as they were read
\* before the page's assets were saved
SavedOverStale(r, u, st0, withAssets, rel_path, links, base_domain, depth) ==
  [st0 EXCEPT
     !.written = withAssets.written \cup {rel_path},
     !.calls = withAssets.calls,
     !.url_map = With(@, u, rel_path),
     !.html = With(@, u, rewrite_html_links(Targets(u), withAssets.url_map)),
     !.files_meta = Append(@, PageMeta(u, rel_path)),
     !.visited_pages = @ \cup {u},
     !.to_visit =
        Enqueue(@, links, withAssets.visited_pages \cup {u},
                base_domain, r.current_depth, depth)]

\* lines 131-145: the page is rewritten, saved and recorded, it is a visited
\* page, and its links are enqueued; the collections are those the asset
\* loop left
Saved(r, u, st0, withAssets, rel_path, links, base_domain, depth) ==
  [withAssets EXCEPT
     !.written = @ \cup {rel_path},
     !.html = With(@, u, rewrite_html_links(Targets(u), withAssets.url_map)),
     !.files_meta = Append(@, PageMeta(u, rel_path)),
     !.visited_pages = @ \cup {u},
     !.to_visit =
        Enqueue(@, links, withAssets.visited_pages \cup {u},
                base_domain, r.current_depth, depth)]

\* the page branch, were the page mapped once its links are rewritten
ParsedMappedLast(r, u, env, base_url, depth, st0, rel_path, parsed) ==
  Only({[(IF ~SaveOk(env[u])
            THEN withAssets
            ELSE Saved(r, u, st0, withAssets, rel_path, parsed.links,
                       domain_from_url(base_url), depth))
           EXCEPT !.url_map = With(@, u, rel_path)] :
        withAssets \in {SaveAssets(parsed.assets, st0, env, base_url)}})

\* lines 108-145: the page is mapped, its assets are saved in turn, and the
\* page is saved
Parsed(r, u, env, base_url, depth, st0, rel_path, parsed) ==
  Only({(IF ~SaveOk(env[u])
           THEN withAssets
           ELSE Saved(r, u, st0, withAssets, rel_path, parsed.links,
                      domain_from_url(base_url), depth)) :
        withAssets \in
          {SaveAssets(parsed.assets,
                      [st0 EXCEPT !.url_map = With(@, u, rel_path)],
                      env, base_url)}})

\* the body of the as_completed loop for one future (lines 78-148); the
\* result is the crawl's locals, with `written` the files put on disk
ProcessResult(r, u, env, base_url, depth, include_images) ==
  LET st0 == [url_map |-> r.url_map, files_meta |-> r.files_meta,
              visited_pages |-> r.visited_pages, to_visit |-> r.to_visit,
              calls |-> r.calls, html |-> r.html, written |-> {}]
      content_type == ContentType(u)
      rp == url_to_relpath(base_url, u)
      rel_path == IF Suffix(rp) = "" THEN with_suffix(rp, ".html") ELSE rp
  IN  IF ~fetch(env[u]).ok
        THEN st0
        ELSE IF content_type # "text/html" /\ Suffix(rel_path) \notin {".html", ".htm"}
          THEN IF SaveOk(env[u])
                 THEN [st0 EXCEPT
                         !.written = @ \cup {rel_path},
                         !.url_map = With(@, u, rel_path),
                         !.files_meta = Append(@, FileMeta(u, rel_path, content_type))]
                 ELSE st0
          ELSE Only({Parsed(r, u, env, base_url, depth, st0, rel_path, parsed) :
                       parsed \in {IF HasText(content_type)
                                     THEN extract_links(u, include_images)
                                     ELSE NoLinks}})

\* the URLs one future's processing asks the network for
Touched(u, include_images) ==
  {u} \cup (IF ContentType(u) = "text/html"
              THEN {a \in Range(extract_links(u, include_images).assets) :
                      is_internal_link(domain_from_url(Seed), a)}
              ELSE {})

(***************************************************************************)
(* Init: the application has one target and no snapshot yet.               *)
(***************************************************************************)
NewSnapshotSizedByCount(ts, files_meta) ==
  [ts |-> ts, file_count |-> Len(files_meta), total_size |-> Len(files_meta),
   compressed |-> FALSE, deleted |-> FALSE, files |-> files_meta]

\* run_backup, lines 56-76: the sizes of the manifest are added up, and the
\* record is made with the manifest's length, the sum, and one row per entry
NewSnapshot(ts, files_meta) ==
  [ts |-> ts, file_count |-> Len(files_meta), total_size |-> SumSizes(files_meta),
   compressed |-> FALSE, deleted |-> FALSE, files |-> files_meta]

\* the OK status, were it to report the manifest's length for both numbers
StatusOfCountOnly(files_meta) == OkStatus(Len(files_meta), Len(files_meta))

StatusOf(files_meta) == OkStatus(Len(files_meta), SumSizes(files_meta))

\* max_workers=website.max_workers or settings.MAX_WORKERS
PoolSize(w) == IF w.max_workers = 0 THEN MAX_WORKERS ELSE w.max_workers

\* the faults of _zip_snapshot: see ZipSnapshot
ZipFaults == {"open", "unlink"}

DiskFaults == ZipFaults \cup {"rmdir"}

InitWebsite(limit, compress, depth, images) ==
  [url |-> Seed, active |-> TRUE, retention_limit |-> limit,
   compress_old |-> compress, crawl_depth |-> depth, include_images |-> images,
   max_workers |-> DefaultWorkers, last_status |-> NoStatus, last_run_at |-> 0]

InitState ==
  /\ coll = Unloaded
  /\ snapshots = <<>>
  /\ dirs = <<>>
  /\ zips = <<>>
  /\ clock = 0
  /\ asked = 0
  /\ pc = "idle"
  /\ run = NoRun
  /\ created = 0
  /\ result = 0
  /\ raised = "none"
  /\ pass = NoPass

\* the application from its first start: the site answers every request
Init ==
  /\ InitState
  /\ notifier = Working
  /\ quota = MaxRuns
  /\ network = {"up"}
  /\ disk = ZipFaults
  /\ \E limit \in MinRetention..MaxLimit, compress \in BOOLEAN :
       website = InitWebsite(limit, compress, 0, FALSE)

\* one run on a site that may fail in any way
InitCrawl ==
  /\ InitState
  /\ notifier = Unreliable
  /\ quota = 1
  /\ network = Outcomes
  /\ disk = ZipFaults
  /\ \E depth \in 0..MaxDepth, images \in BOOLEAN, workers \in 1..MaxWorkers :
       website = [InitWebsite(MinRetention, TRUE, depth, images)
                    EXCEPT !.max_workers = workers]

\* one run on the second site, the network answering in any way
InitFetch ==
  /\ InitState
  /\ notifier = Working
  /\ quota = 1
  /\ network = Responses
  /\ disk = ZipFaults
  /\ \E depth \in 0..MaxDepth :
       website = [InitWebsite(MinRetention, TRUE, depth, FALSE) EXCEPT !.url = Seed2]

\* one run on the third site, the network answering in any way
InitKinds ==
  /\ InitState
  /\ notifier = Working
  /\ quota = 1
  /\ network = Outcomes
  /\ disk = ZipFaults
  /\ \E depth \in 0..MaxDepth, workers \in 1..MaxWorkers :
       website = [InitWebsite(MinRetention, TRUE, depth, FALSE)
                    EXCEPT !.url = Seed3, !.max_workers = workers]

\* the snapshot of run i of a history: one page, made in second i
OldSnapshot(i, compressed) ==
  [NewSnapshot(i, <<FileMeta(Seed, url_to_relpath(Seed, Seed), "text/html")>>)
     EXCEPT !.compressed = compressed]

OldFiles == {url_to_relpath(Seed, Seed), MetadataJson}

\* the application with the history that n earlier runs left under an
\* earlier retention policy (the policy is edited in the GUI): the k oldest
\* snapshots are compressed; then one more run and any passes
History(most, limits, actives) ==
  /\ pc = "idle" /\ run = NoRun /\ created = 0 /\ result = 0
  /\ raised = "none" /\ pass = NoPass /\ coll = Unloaded /\ asked = 0
  /\ notifier = Working
  /\ quota = 1
  /\ network = {"up"}
  /\ \E n \in 0..most, limit \in limits, compress \in BOOLEAN, active \in actives :
       \E k \in 0..Max(0, n - HotWindow) :
         /\ website = [InitWebsite(limit, compress, 0, FALSE) EXCEPT !.active = active]
         /\ clock = n
         /\ snapshots = [i \in 1..n |-> OldSnapshot(i, i <= k)]
         /\ dirs = [i \in (k + 1)..n |-> OldFiles]
         /\ zips = [i \in 1..k |-> OldFiles]

InitHistory ==
  History(MaxHistory, MinRetention..MaxLimit, {TRUE}) /\ disk = ZipFaults

\* a history of at most MaxKept snapshots, on a disk where the removal of a
\* directory may fail as well
InitFaulty ==
  History(MaxKept, MinRetention..MaxLimit, {TRUE}) /\ disk = DiskFaults

\* the values of retention_limit that are stored for a target but are no
\* limit: a negative number, and 0, which `or` takes as it takes None
NoLimits == (0 - MinRetention)..0

\* a history of at most MaxKept snapshots of a target whose retention_limit
\* was edited to such a value, or to the least limit
InitLimits ==
  History(MaxKept, NoLimits \cup {MinRetention}, {TRUE}) /\ disk = ZipFaults

\* a history of at most MaxKept snapshots of a target that is active, or
\* was made inactive in the GUI
InitInactive ==
  History(MaxKept, {MinRetention}, BOOLEAN) /\ disk = ZipFaults

(***************************************************************************)
(* run_backup, lines 24-34: resolve the target, stamp the run, make the    *)
(* snapshot directory.                                                     *)
(***************************************************************************)
\* the test of line 26, were it to be `if not website`
NoTargetUnlessMissing(w, website_id) == website_id # WebsiteId

\* lines 25-26: session.get finds no Website with this id, or the one it
\* finds is not active
NoTarget(w, website_id) == website_id # WebsiteId \/ ~w.active

\* line 27: return None
RunBackupNone ==
  /\ pc = "idle"
  /\ quota > 0
  /\ \E website_id \in WebsiteIds :
       /\ NoTarget(website, website_id)
       /\ asked' = website_id
  /\ quota' = quota - 1
  /\ result' = 0
  /\ UNCHANGED <<website, coll, snapshots, dirs, zips, clock, network, disk, pc,
                 run, created, raised, pass, notifier>>

\* the head of the level loop, were a failed URL to end the crawl
LoopHeadAbortsOnFailure(r, w) ==
  IF \E u \in Urls : r.calls[u] > 0 /\ ~(fetch(r.env[u]).ok /\ SaveOk(r.env[u]))
    THEN [run |-> r, returns |-> TRUE]
    ELSE IF r.current_depth <= w.crawl_depth /\ r.to_visit # {}
      THEN LET batch == {u \in r.to_visit : is_internal_link(domain_from_url(w.url), u)}
               futures == batch \ r.visited_pages
           IN  [run |-> [r EXCEPT !.to_visit = {}, !.futures = futures],
                returns |-> futures = {}]
      ELSE [run |-> r, returns |-> TRUE]

\* the head of the level loop, were it to wait to be cancelled where the
\* code returns
LoopHeadAwaitingCancel(r, w) ==
  IF r.current_depth <= w.crawl_depth /\ r.to_visit # {}
    THEN [run |-> [r EXCEPT !.to_visit = {},
                            !.futures = {u \in r.to_visit :
                                           is_internal_link(domain_from_url(w.url), u)}
                                        \ r.visited_pages],
          returns |-> FALSE]
    ELSE [run |-> [r EXCEPT !.futures = {}], returns |-> FALSE]

\* crawl_website, lines 71-77: the head of the level loop, reached with the
\* locals r: the next batch is submitted to the pool, or the crawl returns
LoopHead(r, w) ==
  IF r.current_depth <= w.crawl_depth /\ r.to_visit # {}
    THEN LET batch == {u \in r.to_visit : is_internal_link(domain_from_url(w.url), u)}
             futures == batch \ r.visited_pages
         IN  [run |-> [r EXCEPT !.to_visit = {}, !.futures = futures],
              returns |-> futures = {}]
    ELSE [run |-> r, returns |-> TRUE]

RunBackupStart ==
  /\ pc = "idle"
  /\ quota > 0
  /\ ~NoTarget(website, WebsiteId)
  /\ asked' = WebsiteId
  /\ \E ts \in {clock, clock + 1} :
       LET head == LoopHead([NoRun EXCEPT !.ts = ts, !.to_visit = {website.url}], website)
       IN  /\ clock' = ts
           /\ dirs' = Mkdir(dirs, ts)
           /\ run' = head.run
           /\ pc' = IF head.returns THEN "crawled" ELSE "futures"
  /\ quota' = quota - 1
  /\ created' = 0
  /\ raised' = "none"
  /\ pass' = NoPass
  /\ notifier' = [notifier EXCEPT !.last = "none"]
  /\ UNCHANGED <<website, coll, snapshots, zips, network, disk, result>>

\* save_file, dest_root / rel_path: the files that land under dest_root; a
\* rel_path that is absolute replaces dest_root and the file lands elsewhere
Under(written) == {p \in written : ~IsAbsolute(p)}

(***************************************************************************)
(* crawl_website, lines 78-148: one completed future is processed; after   *)
(* the last one of a level the loop goes to its head again.                *)
(***************************************************************************)
\* the URLs of the future of u that the network has not yet answered in
\* this run
Fresh(r, u, w) == {x \in Touched(u, w.include_images) : r.env[x] = "unknown"}

\* the ways the network may answer them
Reveals(r, u, w, net) ==
  {g \in [Fresh(r, u, w) -> net \cup {"malformed"}] :
     \A x \in Fresh(r, u, w) : g[x] \in Answers(x, net)}

\* the level loop, were it to go to the next level at the first result
ExhaustedAtFirstResult(rest) == TRUE

\* line 78: as_completed(futures) has yielded every future of the level
Exhausted(rest) == rest = {}

\* the end of the loop body for the future of u, which left the locals st:
\* the next future of the level, the next level, or the return
Finished(r, u, env, st, w, d) ==
  LET rest == r.futures \ {u}
      after == [r EXCEPT
                  !.env = env,
                  !.calls = st.calls,
                  !.url_map = st.url_map,
                  !.files_meta = st.files_meta,
                  !.html = st.html,
                  !.visited_pages = st.visited_pages,
                  !.to_visit = st.to_visit,
                  !.futures = rest,
                  !.ready = @ \ {u}]
      head == LoopHead([after EXCEPT !.current_depth = @ + 1], w)
  IN  [run |-> IF Exhausted(rest) THEN head.run ELSE after,
       pc |-> IF Exhausted(rest) /\ head.returns THEN "crawled" ELSE "futures",
       dirs |-> IF Under(st.written) = {} THEN d
                ELSE With(d, r.ts,
                          (IF r.ts \in DOMAIN d THEN d[r.ts] ELSE {})
                            \cup Under(st.written))]

\* the loop body for the future of u, the network answering as f says: the
\* locals after it, whether the crawl returns, and the files under dest_root
AfterFuture(r, u, f, w, d) ==
  Only({Only({Finished(r, u, env, st, w, d) :
                st \in {ProcessResult([r EXCEPT !.calls[u] = @ + 1], u, env,
                                      w.url, w.crawl_depth,
                                      w.include_images)}}) :
        env \in {[x \in Urls |-> IF x \in DOMAIN f THEN f[x] ELSE r.env[x]]}})

\* the pool, were it to start a thread for every work item
HasIdleWorkerForEach(r, w) == TRUE

\* ThreadPoolExecutor(max_workers=max_workers): a work item is taken from the
\* queue by a worker thread, of which there are at most max_workers
HasIdleWorker(r, w) == Cardinality(r.running) < PoolSize(w)

\* a worker thread takes a submitted fetch from the queue and calls fetch(url)
StartFetch ==
  /\ pc = "futures"
  /\ HasIdleWorker(run, website)
  /\ \E u \in run.futures \ (run.running \cup run.ready) :
       run' = [run EXCEPT !.running = @ \cup {u}]
  /\ UNCHANGED <<website, coll, snapshots, dirs, zips, clock, network, disk, quota,
                 asked, pc, created, result, raised, pass, notifier>>

\* fetch(url) returns or raises in its worker thread: the future is done,
\* and the worker is free for the next work item
FinishFetch ==
  /\ pc = "futures"
  /\ \E u \in run.running :
       run' = [run EXCEPT !.running = @ \ {u}, !.ready = @ \cup {u}]
  /\ UNCHANGED <<website, coll, snapshots, dirs, zips, clock, network, disk, quota,
                 asked, pc, created, result, raised, pass, notifier>>

\* for future in as_completed(futures): the main thread takes a future that
\* is done and runs the loop body on it
ProcessFuture ==
  /\ pc = "futures"
  /\ \E u \in run.ready :
       \E f \in Reveals(run, u, website, network) :
         \E a \in {AfterFuture(run, u, f, website, dirs)} :
           /\ run' = a.run
           /\ pc' = a.pc
           /\ dirs' = a.dirs
  /\ UNCHANGED <<website, coll, snapshots, zips, clock, network, disk, quota,
                 asked, created, result, raised, pass, notifier>>

(***************************************************************************)
(* core/backup_manager.py: the retention pass.                             *)
(***************************************************************************)

\* _zip_snapshot(snap_dir), lines 132-147: what it leaves on disk and the
\* exception it raises.  fault: "none", "open" (the archive cannot be
\* created), "unlink" (the archive is written, a file cannot be removed),
\* "rmdir" (the archive is written and the files are removed; the closing
\* snap_dir.rmdir() raises, the directory not being empty of directories).
ZipSnapshot(d, z, p, fault) ==
  IF fault = "open"
    THEN [dirs |-> d, zips |-> z, raised |-> "OSError"]
    ELSE IF p \notin DOMAIN d
      THEN [dirs |-> d, zips |-> With(z, p, {}), raised |-> "FileNotFoundError"]
      ELSE IF fault = "unlink"
        THEN [dirs |-> d, zips |-> With(z, p, d[p]), raised |-> "PermissionError"]
      ELSE IF fault = "rmdir"
        THEN [dirs |-> With(d, p, {}), zips |-> With(z, p, d[p]), raised |-> "OSError"]
        ELSE [dirs |-> Without(d, p), zips |-> With(z, p, d[p]), raised |-> "none"]

\* lines 118-125: compress, in order, each snapshot that is not compressed;
\* the flag is committed after each archive; an exception ends the loop.
\* n counts the _zip_snapshot calls; call number failAt meets the fault.
RECURSIVE CompressLoop(_, _, _, _, _)
CompressLoop(ids, st, n, failAt, kind) ==
  IF ids = <<>> \/ st.raised # "none" THEN st
  ELSE
    LET id == Head(ids)
        s == st.snapshots[id]
        r == ZipSnapshot(st.dirs, st.zips, s.ts, IF n = failAt THEN kind ELSE "none")
        after ==
          [st EXCEPT
             !.dirs = r.dirs,
             !.zips = r.zips,
             !.raised = r.raised,
             !.zipped = @ \cup {id},
             !.faulty = @ \/ r.raised # "none",
             !.snapshots[id].compressed = IF r.raised = "none" THEN TRUE ELSE @]
    IN  IF s.compressed
          THEN CompressLoop(Tail(ids), st, n, failAt, kind)
          ELSE CompressLoop(Tail(ids), after, n + 1, failAt, kind)

\* _delete_snapshot, were it to clear the flag of the archive it removes
DeleteSnapshotUnarchiving(st, id, fails) ==
  LET p == st.snapshots[id].ts
      onDisk == p \in DOMAIN st.dirs \/ p \in DOMAIN st.zips
  IN  [st EXCEPT
         !.dirs = IF fails THEN @ ELSE Without(@, p),
         !.zips = IF fails THEN @ ELSE Without(@, p),
         !.pruned = @ \cup {id},
         !.faulty = @ \/ (fails /\ onDisk),
         !.gone = @ \cup (IF onDisk THEN {} ELSE {id}),
         !.snapshots[id].compressed = FALSE,
         !.snapshots[id].deleted = TRUE]

\* _delete_snapshot(snapshot), lines 149-169: remove the directory and the
\* archive, whichever exist; a filesystem error is caught and logged; the
\* record is deleted in either case.
DeleteSnapshot(st, id, fails) ==
  LET p == st.snapshots[id].ts
      onDisk == p \in DOMAIN st.dirs \/ p \in DOMAIN st.zips
  IN  [st EXCEPT
         !.dirs = IF fails THEN @ ELSE Without(@, p),
         !.zips = IF fails THEN @ ELSE Without(@, p),
         !.pruned = @ \cup {id},
         !.faulty = @ \/ (fails /\ onDisk),
         !.gone = @ \cup (IF onDisk THEN {} ELSE {id}),
         !.snapshots[id].deleted = TRUE]

\* the pruning loop, were it to end at a snapshot that has neither its
\* directory nor its archive
RECURSIVE PruneLoopUntilMissing(_, _, _)
PruneLoopUntilMissing(ids, st, failing) ==
  IF ids = <<>> THEN st
  ELSE IF st.snapshots[Head(ids)].ts \notin DOMAIN st.dirs \cup DOMAIN st.zips
    THEN st
  ELSE PruneLoopUntilMissing(Tail(ids),
                             DeleteSnapshot(st, Head(ids), Head(ids) \in failing),
                             failing)

\* lines 127-130: _delete_snapshot for each snapshot beyond the limit
RECURSIVE PruneLoop(_, _, _)
PruneLoop(ids, st, failing) ==
  IF ids = <<>> THEN st
  ELSE PruneLoop(Tail(ids), DeleteSnapshot(st, Head(ids), Head(ids) \in failing), failing)

\* the rows of the snapshots table of the target
Rows(snaps) == {i \in 1..Len(snaps) : ~snaps[i].deleted}

\* website.snapshots: the collection loaded on the instance, or a lazy load
Relationship(c, snaps) == IF c.loaded THEN c.ids ELSE Rows(snaps)

\* sorted(website.snapshots, key=created_at, reverse=True): ids are given in
\* the order of creation
SnapsOf(c, snaps) == SortDesc(Relationship(c, snaps))

\* the limit, were it to be no less than 0
RetentionLimitFromZero(w) ==
  Max(0, IF w.retention_limit = 0 THEN DefaultRetention ELSE w.retention_limit)

\* line 128: limit = max(1, website.retention_limit or 10)
RetentionLimit(w) ==
  Max(MinRetention, IF w.retention_limit = 0 THEN DefaultRetention ELSE w.retention_limit)

\* the compression loop, were it to spare the newest snapshot only
ToCompressAllButOne(w, snaps) == IF w.compress_old THEN Drop(snaps, 1) ELSE <<>>

ToCompress(w, snaps) == IF w.compress_old THEN Drop(snaps, HotWindow) ELSE <<>>

\* the pruning loop, were it to keep one snapshot fewer than the limit
ToPruneOneMore(w, snaps) == Drop(snaps, RetentionLimit(w) - 1)

ToPrune(w, snaps) == Drop(snaps, RetentionLimit(w))

\* enforce_retention, were a failed compression to undo the newest snapshot
enforce_retention_undoing(w, c, snaps, d, z, failAt, kind, failing) ==
  LET sorted == SnapsOf(c, snaps)
      st0 == [snapshots |-> snaps, dirs |-> d, zips |-> z, raised |-> "none",
              zipped |-> {}, pruned |-> {}, faulty |-> FALSE, gone |-> {}]
      compressed == CompressLoop(ToCompress(w, sorted), st0, 1, failAt, kind)
  IN  IF sorted = <<>> THEN st0
      ELSE IF compressed.raised # "none"
        THEN [DeleteSnapshot(compressed, Head(sorted), FALSE) EXCEPT !.pruned = {}]
      ELSE PruneLoop(ToPrune(w, sorted), compressed, failing)

\* enforce_retention(website), lines 109-130
enforce_retention(w, c, snaps, d, z, failAt, kind, failing) ==
  LET sorted == SnapsOf(c, snaps)
      st0 == [snapshots |-> snaps, dirs |-> d, zips |-> z, raised |-> "none",
              zipped |-> {}, pruned |-> {}, faulty |-> FALSE, gone |-> {}]
      compressed == CompressLoop(ToCompress(w, sorted), st0, 1, failAt, kind)
  IN  IF sorted = <<>> THEN st0
      ELSE IF compressed.raised # "none" THEN compressed
      ELSE PruneLoop(ToPrune(w, sorted), compressed, failing)

\* the number of _zip_snapshot calls a pass can come to make
ZipCalls(w, c, snaps) ==
  Cardinality({i \in Range(ToCompress(w, SnapsOf(c, snaps))) : ~snaps[i].compressed})

\* the filesystem errors a pass can meet: the _zip_snapshot call number failAt
\* raises (0: none), or some of the pruned snapshots cannot be removed
Faults(w, c, snaps, d, z, kinds) ==
  {[failAt |-> k, kind |-> kd, failing |-> {}] :
     k \in 1..ZipCalls(w, c, snaps), kd \in kinds}
  \cup
  {[failAt |-> 0, kind |-> "none", failing |-> F] :
     F \in SUBSET {i \in Range(ToPrune(w, SnapsOf(c, snaps))) :
                    snaps[i].ts \in DOMAIN d \cup DOMAIN z}}

PassOf(r, sorted) ==
  [done |-> TRUE, raised |-> r.raised, zipped |-> r.zipped, pruned |-> r.pruned,
   faulty |-> r.faulty, gone |-> r.gone, seen |-> sorted]

(***************************************************************************)
(* run_backup, lines 46-80: metadata.json, the Snapshot record and its     *)
(* BackupFile rows, the target's status.                                   *)
(***************************************************************************)
Commit ==
  /\ pc = "crawled"
  /\ \E written \in BOOLEAN :
       IF written
         THEN /\ dirs' = WriteFile(dirs, run.ts, MetadataJson)
              /\ snapshots' = Append(snapshots, NewSnapshot(run.ts, run.files_meta))
              /\ created' = Len(snapshots) + 1
              /\ website' = [website EXCEPT
                               !.last_run_at = clock,
                               !.last_status = StatusOf(run.files_meta)]
              /\ raised' = "none"
              /\ pc' = "retention"
         ELSE /\ raised' = "OSError"
              /\ pc' = "except"
              /\ UNCHANGED <<dirs, snapshots, created, website>>
  /\ UNCHANGED <<coll, zips, clock, network, disk, quota, asked, run, result, pass,
                 notifier>>

(***************************************************************************)
(* core/notifier.py: Notifier.desktop and Notifier.email.                  *)
(***************************************************************************)
NotifyOrRaise(delivered) ==
  IF delivered
    THEN [raised |-> "none", last |-> "delivered"]
    ELSE [raised |-> "NotificationError", last |-> "raised"]

\* the notification is delivered, or the exception of the delivery is caught
\* and logged as a warning; nothing is raised to the caller
Notify(delivered) ==
  [raised |-> "none", last |-> IF delivered THEN "delivered" ELSE "logged"]

(***************************************************************************)
(* run_backup, lines 84-94: the retention pass of the run; when it returns *)
(* the notifications are sent (the Notifier logs a failed delivery) and    *)
(* run_backup returns the snapshot.  The Website the                       *)
(* run got from session.get (line 25) is the instance alive in the         *)
(* session's identity map, with website.snapshots as an earlier pass       *)
(* loaded it (sessions do not expire on commit), or, when no instance was  *)
(* alive, a new one whose collection is loaded here.                       *)
(***************************************************************************)
Retention ==
  /\ pc = "retention"
  /\ \E alive \in BOOLEAN :
       LET c == IF alive THEN coll ELSE Unloaded
       IN  \E plan \in Faults(website, c, snapshots, dirs, zips, disk) :
             LET r == enforce_retention(website, c, snapshots, dirs, zips,
                                        plan.failAt, plan.kind, plan.failing)
             IN  /\ snapshots' = r.snapshots
                 /\ dirs' = r.dirs
                 /\ zips' = r.zips
                 /\ pass' = PassOf(r, SnapsOf(c, snapshots))
                 /\ coll' = Loaded(Relationship(c, snapshots))
                 /\ IF r.raised # "none"
                      THEN /\ raised' = r.raised
                           /\ pc' = "except"
                           /\ UNCHANGED <<result, created, run, notifier>>
                      ELSE \E delivered \in notifier.delivers :
                             LET n == Notify(delivered)
                             IN  /\ notifier' = [notifier EXCEPT !.last = n.last]
                                 /\ raised' = n.raised
                                 /\ IF n.raised = "none"
                                      THEN /\ pc' = "idle"
                                           /\ result' = created
                                           /\ created' = 0
                                           /\ run' = NoRun
                                      ELSE /\ pc' = "except"
                                           /\ UNCHANGED <<result, created, run>>
  /\ UNCHANGED <<website, clock, network, disk, quota, asked>>

(***************************************************************************)
(* run_backup, lines 96-107: the exception handler.                        *)
(***************************************************************************)
OnError(w, e) == [w EXCEPT !.last_status = ErrorStatus(e)]

\* the handler's own notifications are outside any try: an exception of
\* theirs would leave run_backup
Except ==
  /\ pc = "except"
  /\ website' = OnError(website, raised)
  /\ \E delivered \in notifier.delivers :
       LET n == Notify(delivered)
       IN  /\ notifier' = [notifier EXCEPT !.last = n.last]
           /\ raised' = n.raised
  /\ result' = 0
  /\ created' = 0
  /\ pc' = "idle"
  /\ run' = NoRun
  /\ UNCHANGED <<coll, snapshots, dirs, zips, clock, network, disk, quota, asked,
                 pass>>

(***************************************************************************)
(* enforce_retention called on its own for the target.                     *)
(***************************************************************************)
RetentionPass ==
  /\ pc = "idle"
  /\ \E alive \in BOOLEAN :
       LET c == IF alive THEN coll ELSE Unloaded
       IN  \E plan \in Faults(website, c, snapshots, dirs, zips, disk) :
             LET r == enforce_retention(website, c, snapshots, dirs, zips,
                                        plan.failAt, plan.kind, plan.failing)
             IN  /\ snapshots' = r.snapshots
                 /\ dirs' = r.dirs
                 /\ zips' = r.zips
                 /\ pass' = PassOf(r, SnapsOf(c, snapshots))
                 /\ coll' = Loaded(Relationship(c, snapshots))
  /\ UNCHANGED <<website, clock, network, disk, quota, asked, pc, run, created,
                 result, raised, notifier>>

Next ==
  \/ RunBackupNone
  \/ RunBackupStart
  \/ StartFetch
  \/ FinishFetch
  \/ ProcessFuture
  \/ Commit
  \/ Retention
  \/ Except
  \/ RetentionPass

\* the application from its first start, MaxRuns runs on a site that answers
Spec == Init /\ [][Next]_vars

SpecCrawl == InitCrawl /\ [][Next]_vars

SpecHistory == InitHistory /\ [][Next]_vars

SpecFetch == InitFetch /\ [][Next]_vars

SpecFaulty == InitFaulty /\ [][Next]_vars

SpecKinds == InitKinds /\ [][Next]_vars

SpecLimits == InitLimits /\ [][Next]_vars

SpecInactive == InitInactive /\ [][Next]_vars

\* SpecCrawl where every fetch attempt returns or fails: as_completed yields
\* each submitted future in the end, and the loop body processes it
SpecCrawlLive ==
  /\ InitCrawl
  /\ [][Next]_vars
  /\ WF_vars(StartFetch)
  /\ WF_vars(FinishFetch)
  /\ WF_vars(ProcessFuture)

(***************************************************************************)
(* The crawl and its failures (SpecCrawl).                                 *)
(***************************************************************************)
\* the URLs of the manifest the crawl has built so far
Manifest == {run.files_meta[i].url : i \in 1..Len(run.files_meta)}

\* u was asked for in this run and could not be fetched or saved
Failed(u) ==
  run.calls[u] > 0 /\ ~(fetch(run.env[u]).ok /\ SaveOk(run.env[u]))

\* every attempt to fetch the seed met a connection error
SeedFetchFailed ==
  LET r == fetch(run.env[Seed])
  IN  /\ run.calls[Seed] > 0
      /\ ~r.ok /\ r.err = "ConnectionError" /\ r.attempts = StopAfterAttempt

\* C1: when every fetch attempt for the seed URL fails with a connection
\* error, the run creates no Snapshot record and the target's last_status
\* is not an OK status.
C1_SeedFailureIsFatal ==
  SeedFetchFailed => (created = 0 /\ website.last_status.text # "OK")

\* the level of the crawl at which a URL of the site is reached
Level(u) ==
  CASE u \in {Seed, Seed2, Seed3} -> 0
    [] u \in {PageA, Doc, Upper, Slashy, Mail, Blob, Php} -> 1
    [] OTHER -> 2

InDomain(u) == is_internal_link(domain_from_url(website.url), u)

\* C10: a fetch or persistence failure on a URL other than the seed never
\* aborts the crawl: no failed URL is in the manifest, and when the crawl
\* returns every in-domain asset of every parsed page and every in-domain
\* link of every saved page above the depth limit has been processed.
C10_FailuresAreContained ==
  /\ \A u \in Manifest : ~Failed(u)
  /\ pc = "crawled" =>
       /\ \A u \in DOMAIN run.url_map :
            ContentType(u) = "text/html" =>
              \A a \in Range(extract_links(u, website.include_images).assets) :
                InDomain(a) => run.calls[a] > 0
       /\ \A u \in run.visited_pages :
            Level(u) < website.crawl_depth =>
              \A l \in extract_links(u, website.include_images).links :
                InDomain(l) => run.calls[l] > 0

\* a page and an asset failed, and the URLs next to them and below them are
\* in the manifest
C10_Witness ==
  /\ pc = "crawled"
  /\ Failed(Doc) /\ Failed(Img)
  /\ {Seed, PageA, PageB, Icon} \subseteq Manifest

(***************************************************************************)
(* Retention (Spec).                                                       *)
(***************************************************************************)
\* an enforce_retention pass has just returned without raising
PassCompleted == pass.done /\ pass.raised = "none"

\* the two most recently created of the target's Snapshot records
Newest(snaps) ==
  {i \in Rows(snaps) : Cardinality({j \in Rows(snaps) : j > i}) < HotWindow}

OnDisk(s) == s.ts \in DOMAIN dirs
Archived(s) == s.ts \in DOMAIN zips

\* C2: after any enforce_retention pass the number of Snapshot records
\* retained for the target is at most the target's retention_limit.
C2_RetainedWithinLimit ==
  PassCompleted => Cardinality(Rows(snapshots)) <= website.retention_limit

\* C3: in every reachable state the two most recently created Snapshots of
\* the target have compressed = false, and no pass handed them to
\* _zip_snapshot.
C3_HotWindow ==
  \A i \in Newest(snapshots) :
    ~snapshots[i].compressed /\ i \notin pass.zipped

\* a pass has compressed older snapshots and left the two newest alone
C3_Witness ==
  /\ PassCompleted
  /\ pass.zipped # {}
  /\ Cardinality(Newest(snapshots)) = HotWindow
  /\ \E i \in Rows(snapshots) : snapshots[i].compressed

\* C4: for every Snapshot record that exists once a retention pass has
\* completed, exactly one of its directory and its .zip archive is on disk.
C4_DirectoryOrArchive ==
  PassCompleted =>
    \A i \in Rows(snapshots) : OnDisk(snapshots[i]) # Archived(snapshots[i])

(***************************************************************************)
(* run_backup and its status (Spec).                                       *)
(***************************************************************************)
\* a run_backup on the active target has returned
RunReturned == pc = "idle" /\ quota < MaxRuns /\ asked = WebsiteId

\* C8: after every run_backup on an active target last_status is
\* "OK (N files, B bytes)" with N and B the file count and total size of the
\* snapshot the run created and returned, or it is "ERROR: <message>" with
\* the message of the exception when the run failed and returned None.
C8_StatusReflectsRun ==
  RunReturned =>
    IF result # 0
      THEN website.last_status =
             OkStatus(snapshots[result].file_count, snapshots[result].total_size)
      ELSE /\ website.last_status.text = "ERROR: "
           /\ website.last_status.msg \in {"OSError", "FileNotFoundError", "PermissionError"}

\* a run failed in its retention pass, after a run that succeeded
C8_Witness ==
  /\ RunReturned
  /\ result = 0
  /\ pass.raised # "none"
  /\ Len(snapshots) > 1
  /\ website.last_status.text = "ERROR: "

\* the Snapshot record of the run, as it was committed, with its files
Committed(snaps, d) ==
  /\ snaps[created] = NewSnapshot(run.ts, run.files_meta)
  /\ run.ts \in DOMAIN d
  /\ \A i \in 1..Len(run.files_meta) : run.files_meta[i].rel_path \in d[run.ts]

\* C9: a failure inside the retention pass never rolls back a completed
\* backup: the step in which enforce_retention raises leaves the committed
\* Snapshot record and its FileRecords as they were, and the handling of the
\* error removes or alters no record and no file on disk.
C9_NoRollback ==
  [][/\ (pc = "retention" /\ pc' = "except") =>
          /\ created' = created
          /\ snapshots[created] = NewSnapshot(run.ts, run.files_meta)
          /\ snapshots'[created] = snapshots[created]
     /\ (pc = "except" /\ created # 0) =>
          /\ snapshots' = snapshots
          /\ dirs' = dirs
          /\ zips' = zips]_vars

\* the retention pass of a run has raised after the run committed its
\* snapshot, whose files are on disk
C9_Witness ==
  /\ pc = "except"
  /\ created # 0
  /\ pass.raised # "none"
  /\ Committed(snapshots, dirs)

C6_Idempotent ==
  [][(pc = "idle" /\ pc' = "idle" /\ PassCompleted /\ ~pass.faulty) =>
       (snapshots' = snapshots /\ dirs' = dirs /\ zips' = zips)]_vars

(***************************************************************************)
(* One pass over a history of snapshots (SpecHistory).  Snapshot k of the  *)
(* scenario, 1 the newest of the five, is the record with id 6 - k.        *)
(***************************************************************************)
Scenario ==
  /\ website.retention_limit = 3
  /\ website.compress_old
  /\ PassCompleted /\ ~pass.faulty

\* the pass ran over the five snapshots, no run having added one
FirstPassOverFive == Len(snapshots) = 5 /\ pass.seen = <<5, 4, 3, 2, 1>>

\* the pass was that of a run that added a sixth snapshot to the five
PassOfRunOverSix ==
  Len(snapshots) = 6 /\ result = 6 /\ pass.seen = <<6, 5, 4, 3, 2, 1>>

\* C5 as stated: with 5 existing snapshots, retention_limit = 3 and
\* compress_old, after one pass snapshots 3, 4, 5 are deleted, snapshot 2 is
\* compressed and snapshot 1 remains uncompressed.
C5_AsStated ==
  (Scenario /\ FirstPassOverFive) =>
    /\ Rows(snapshots) = {5, 4}
    /\ snapshots[4].compressed
    /\ ~snapshots[5].compressed

\* C5 amended: after one pass over the 5 snapshots, snapshots 4 and 5 are
\* deleted, snapshot 3 is compressed, snapshots 1 and 2 remain uncompressed;
\* the outcome as stated is that of the pass of a run that has added a
\* sixth snapshot, which remains uncompressed too.
C5_HistoryOfFive ==
  /\ (Scenario /\ FirstPassOverFive) =>
       /\ Rows(snapshots) = {5, 4, 3}
       /\ snapshots[3].compressed /\ Archived(snapshots[3]) /\ ~OnDisk(snapshots[3])
       /\ \A i \in {4, 5} : ~snapshots[i].compressed /\ OnDisk(snapshots[i])
       /\ \A i \in {1, 2} : ~OnDisk(snapshots[i]) /\ ~Archived(snapshots[i])
  /\ (Scenario /\ PassOfRunOverSix) =>
       /\ Rows(snapshots) = {6, 5, 4}
       /\ snapshots[4].compressed
       /\ ~snapshots[5].compressed /\ ~snapshots[6].compressed

\* the pass of the scenario has run over the five snapshots
C5_Witness == Scenario /\ FirstPassOverFive /\ pass.pruned = {1, 2}

(***************************************************************************)
(* C11.  The crawl is bounded by its depth.                                *)
(***************************************************************************)
\* the URLs that n links or fewer lead to from the target's URL
RECURSIVE Reach(_)
Reach(n) ==
  IF n = 0 THEN {website.url}
  ELSE Reach(n - 1) \cup UNION {Anchors(p) : p \in Reach(n - 1)}

\* the URLs the pages of a set name as their assets
AssetsOf(pages) == UNION {Range(Images(p)) : p \in pages}

\* C11: the levels 0..depth are processed and no level after them; the links
\* of a page of the last level are not put in the queue; a URL that was asked
\* for is one that depth links or fewer lead to, or an asset of such a page.
C11_DepthBounded ==
  /\ run.current_depth <= website.crawl_depth + 1
  /\ run.current_depth >= website.crawl_depth => run.to_visit = {}
  /\ \A u \in Urls :
       run.calls[u] > 0 =>
         u \in Reach(website.crawl_depth) \cup AssetsOf(Reach(website.crawl_depth))

\* a crawl of depth 1 has returned: PageA, one link from the seed, is saved,
\* and PageB, which only PageA links to, was never asked for
C11_Witness ==
  /\ pc = "crawled"
  /\ website.crawl_depth = 1
  /\ PageA \in run.visited_pages
  /\ PageB \in Anchors(PageA)
  /\ run.calls[PageB] = 0

(***************************************************************************)
(* C12.  Only the target's own host is asked.                              *)
(***************************************************************************)
\* two host names are the same but for the case of their letters
SameHostIgnoringCase(a, b) == a = b \/ {a, b} \subseteq {"site", "Site", "SITE"}

C13_PathsUnique ==
  \A k \in 1..Len(snapshots) :
    \A i, j \in 1..Len(snapshots[k].files) :
      i # j => snapshots[k].files[i].rel_path # snapshots[k].files[j].rel_path

(***************************************************************************)
(* C14.  A crawl of depth 0.                                               *)
(***************************************************************************)
\* C14: the target's page has two in-domain links and one in-domain image,
\* the depth is 0 and no request or write fails: when the crawl returns the
\* manifest has two entries (the page and the image) if images are included
\* and one entry (the page) if they are not, and neither linked URL was
\* asked for.
C14_DepthZero ==
  LET internal == {l \in Anchors(website.url) : InDomain(l)}
      images == {a \in Range(Images(website.url)) : InDomain(a)}
  IN  (/\ pc = "crawled"
       /\ website.crawl_depth = 0
       /\ Cardinality(internal) = 2 /\ Cardinality(images) = 1
       /\ \A u \in Urls : ~Failed(u))
      =>
      (/\ Len(run.files_meta) = (IF website.include_images THEN 2 ELSE 1)
       /\ Manifest = {website.url} \cup (IF website.include_images THEN images ELSE {})
       /\ \A l \in internal : run.calls[l] = 0)

\* the crawl of depth 0 with images has returned with the page and the image
C14_Witness ==
  /\ pc = "crawled"
  /\ website.crawl_depth = 0
  /\ website.include_images
  /\ \A u \in Urls : ~Failed(u)
  /\ Manifest = {Seed, Img}
  /\ Len(run.files_meta) = 2
  /\ run.calls[PageA] = 0 /\ run.calls[Doc] = 0

(***************************************************************************)
(* C15.  Links to pages that are not yet fetched.                          *)
(***************************************************************************)
\* C15: when a page's HTML is persisted, no link of it to a URL that is not
\* in the URL map at that moment has been rewritten, and the persisted HTML
\* of a page stays as it was written while the crawl goes on to fetch the
\* pages it links to.
C15_UnfetchedLinksKept ==
  [][\A p \in DOMAIN run'.html :
       IF p \in DOMAIN run.html
         THEN run'.html[p] = run.html[p]
         ELSE run'.html[p] \cap (Targets(p) \ DOMAIN run'.url_map) = {}]_vars

\* the crawl has returned with the seed and PageA saved: the seed's link to
\* PageA, fetched after it, is as it was, PageA is in the URL map, and
\* PageA's link back to the seed is rewritten
C15_Witness ==
  /\ pc = "crawled"
  /\ {Seed, PageA} \subseteq DOMAIN run.html
  /\ PageA \in Anchors(Seed) /\ PageA \notin run.html[Seed]
  /\ PageA \in DOMAIN run.url_map
  /\ Seed \in run.html[PageA]

(***************************************************************************)
(* C16, C17.  The retry contract of fetch.                                 *)
(***************************************************************************)
\* a failure that may pass: the connection failed or the request timed out
Transient(err) == err \in {"ConnectionError", "Timeout"}

\* a failure that another attempt cannot mend: an HTTP error status, a URL
\* that is not well formed
Permanent(err) == err \in {"HTTPError", "InvalidURL"}

\* C16: a call of fetch makes at least one attempt and at most three; no
\* attempt before its last one succeeded; when it returns a response its last
\* attempt succeeded; when it raises, the error is that of its last attempt,
\* and if that attempt's failure was transient it was the third attempt.
C16_AtMostThreeAttempts ==
  \A u \in Urls :
    run.calls[u] > 0 =>
      LET e == run.env[u]
          r == fetch(e)
      IN  /\ r.attempts \in 1..3
          /\ \A n \in 1..(r.attempts - 1) : AttemptResult(e, n) # "ok"
          /\ r.ok => AttemptResult(e, r.attempts) = "ok"
          /\ ~r.ok => r.err = AttemptResult(e, r.attempts)
          /\ (~r.ok /\ Transient(r.err)) => r.attempts = 3

\* the crawl of the second site has returned: one page timed out once and
\* was answered on the second attempt, another refused the connection three
\* times
C16_Witness ==
  /\ pc = "crawled"
  /\ run.calls[Upper] > 0 /\ run.calls[Slashy] > 0
  /\ AttemptResult(run.env[Upper], 1) = "Timeout"
  /\ fetch(run.env[Upper]).ok /\ fetch(run.env[Upper]).attempts = 2
  /\ Upper \in Manifest
  /\ ~fetch(run.env[Slashy]).ok /\ fetch(run.env[Slashy]).attempts = 3
  /\ fetch(run.env[Slashy]).err = "ConnectionError"

\* C17: a call of fetch whose first attempt meets a permanent failure makes
\* no second attempt.
C17_PermanentFailsAtOnce ==
  \A u \in Urls :
    (run.calls[u] > 0 /\ Permanent(AttemptResult(run.env[u], 1))) =>
      fetch(run.env[u]).attempts = 1

(***************************************************************************)
(* C18.  The totals of a Snapshot record.                                  *)
(***************************************************************************)
\* the sizes of the first n rows, added
RECURSIVE SizeOfFirst(_, _)
SizeOfFirst(files, n) ==
  IF n = 0 THEN 0 ELSE SizeOfFirst(files, n - 1) + files[n].size

\* C18: the total_size of every Snapshot record is the sum of the sizes of
\* its FileRecords, and its file_count is their number.
C18_TotalsMatchFiles ==
  \A k \in 1..Len(snapshots) :
    /\ snapshots[k].file_count = Len(snapshots[k].files)
    /\ snapshots[k].total_size = SizeOfFirst(snapshots[k].files, Len(snapshots[k].files))

\* the run has made its record, of a manifest of several files
C18_Witness ==
  /\ created = 1 /\ Len(snapshots) = 1
  /\ snapshots[1].file_count >= 3
  /\ snapshots[1].total_size > snapshots[1].file_count
  /\ snapshots[1].files = run.files_meta

(***************************************************************************)
(* C19.  Notifications that cannot be delivered.                           *)
(***************************************************************************)
\* C19: whether or not its notification is delivered, a run whose retention
\* pass has returned returns its snapshot and leaves last_status as the
\* commit set it, and a run that came to its handler returns nothing, leaves
\* the Snapshot records as they are and sets last_status to the error that
\* brought it there; in neither case is an exception left in flight.
C19_DeliveryNeverFailsRun ==
  [][/\ (pc = "retention" /\ pass'.raised = "none") =>
          (/\ pc' = "idle" /\ raised' = "none"
           /\ result' = created
           /\ website' = website)
     /\ pc = "except" =>
          (/\ pc' = "idle" /\ raised' = "none"
           /\ result' = 0
           /\ snapshots' = snapshots
           /\ website'.last_status = ErrorStatus(raised))]_vars

\* a run has returned its snapshot, with the OK status, and its notification
\* could not be delivered
C19_Witness ==
  /\ pc = "idle"
  /\ notifier.last = "logged"
  /\ result = Len(snapshots) /\ result > 0
  /\ website.last_status.text = "OK"

(***************************************************************************)
(* C20.  url_to_relpath and index.html.                                    *)
(***************************************************************************)
\* the segments of a path without the empty ones at its head
RECURSIVE Relative(_)
Relative(p) == IF p # <<>> /\ Head(p) = Seg("", "") THEN Relative(Tail(p)) ELSE p

\* C20: the relative path recorded for a URL whose path ends in a separator,
\* or whose last segment has no dot, is that path followed by index.html,
\* and no recorded relative path starts with a separator.
C20_IndexHtmlAndRelative ==
  \A i \in 1..Len(run.files_meta) :
    LET u == run.files_meta[i].url
        rel == run.files_meta[i].rel_path
    IN  /\ (u.slash \/ u.segs = <<>> \/ u.segs[Len(u.segs)].suffix = "") =>
             rel = Relative(u.segs) \o <<Seg("index", ".html")>>
        /\ rel # <<>> /\ Head(rel) # Seg("", "")

(***************************************************************************)
(* C21.  The crawl terminates.                                             *)
(***************************************************************************)
\* C21: every crawl that has started returns, and it never goes beyond the
\* levels 0..depth, whatever the links between the pages.
C21_CrawlTerminates ==
  /\ [](run.current_depth <= website.crawl_depth + 1)
  /\ (pc = "futures") ~> (pc = "crawled")

\* a crawl of a site where the seed and PageA link to each other has
\* returned after both were saved
C21_Witness ==
  /\ pc = "crawled"
  /\ PageA \in Anchors(Seed) /\ Seed \in Anchors(PageA)
  /\ {Seed, PageA} \subseteq run.visited_pages

(***************************************************************************)
(* C22.  A retention pass that is interrupted.                             *)
(***************************************************************************)
\* the files the Snapshot record s lists, and metadata.json
FilesOf(s) ==
  {s.files[i].rel_path : i \in 1..Len(s.files)} \cup {MetadataJson}

\* no two Snapshot records of the target have the same path
DistinctPaths ==
  \A i, j \in 1..Len(snapshots) : snapshots[i].ts = snapshots[j].ts => i = j

\* C22: when a retention pass has ended, interrupted or not, every Snapshot
\* record whose compressed flag is set has its archive and no directory, and
\* every record whose flag is not set has its directory with all its files.
C22_InterruptedPassIsConsistent ==
  (pass.done /\ DistinctPaths) =>
    \A i \in Rows(snapshots) :
      IF snapshots[i].compressed
        THEN Archived(snapshots[i]) /\ ~OnDisk(snapshots[i])
        ELSE /\ OnDisk(snapshots[i])
             /\ Under(FilesOf(snapshots[i])) \subseteq dirs[snapshots[i].ts]

(***************************************************************************)
(* C23.  A filesystem error in a retention pass.                           *)
(***************************************************************************)
\* C23: when a retention pass has ended it has raised nothing, whatever the
\* filesystem did: each snapshot beyond the hot window has been handed to
\* _zip_snapshot unless it was compressed already, and each snapshot beyond
\* the limit has been pruned.
C23_FaultIsContained ==
  pass.done =>
    /\ pass.raised = "none"
    /\ \A i \in Range(ToCompress(website, pass.seen)) :
         snapshots[i].compressed \/ i \in pass.zipped
    /\ Range(ToPrune(website, pass.seen)) \subseteq pass.pruned

(***************************************************************************)
(* C25.  The worker pool.                                                  *)
(***************************************************************************)
\* C25: at no time are more page fetches executing than the target's
\* max_workers.
C25_AtMostMaxWorkers == Cardinality(run.running) <= website.max_workers

\* every worker of the pool is fetching a page, and a page of the same level
\* waits in the queue
C25_Witness ==
  /\ pc = "futures"
  /\ Cardinality(run.running) = website.max_workers
  /\ run.futures \ (run.running \cup run.ready) # {}

(***************************************************************************)
(* C24.  The level barrier.                                                *)
(***************************************************************************)
\* C24: the fetches of the next level are submitted, and the level counter
\* advances, only in the step that processes the last outstanding future of
\* the level, when no fetch of the level is executing or waiting; and every
\* fetch that is executing or done is a fetch of the level submitted last.
C24_LevelBarrier ==
  [][pc = "futures" =>
       /\ (run'.futures \ run.futures # {} \/ run'.current_depth # run.current_depth) =>
            /\ run.running = {}
            /\ run.ready = run.futures
            /\ Cardinality(run.futures) = 1
       /\ run'.running \cup run'.ready \subseteq run'.futures]_vars

\* level 2 has been submitted after the two fetches of level 1 were done
\* and processed
C24_Witness ==
  /\ pc = "futures"
  /\ run.current_depth = 2
  /\ run.futures = {PageB}
  /\ {Seed, PageA} \subseteq run.visited_pages
  /\ Doc \in DOMAIN run.url_map

(***************************************************************************)
(* C26.  The collections of a crawl have one writer.                       *)
(***************************************************************************)
IsPrefix(s, t) == Len(s) <= Len(t) /\ \A i \in 1..Len(s) : s[i] = t[i]

\* C26: under every interleaving of the page fetches of a level, a step in
\* which a pool thread starts or ends a fetch leaves visited_pages, url_map
\* and files_meta as they are; a step of the crawl that changes one of them
\* keeps what they held; and every URL that was fetched and saved has its
\* url_map entry and its record.
C26_SingleWriter ==
  /\ [](\A u \in Urls :
          (run.calls[u] > 0 /\ fetch(run.env[u]).ok /\ SaveOk(run.env[u])) =>
            u \in DOMAIN run.url_map /\ u \in Manifest)
  /\ [][pc = "futures" =>
          /\ run'.running # run.running =>
               /\ run'.visited_pages = run.visited_pages
               /\ run'.url_map = run.url_map
               /\ run'.files_meta = run.files_meta
          /\ run.visited_pages \subseteq run'.visited_pages
          /\ DOMAIN run.url_map \subseteq DOMAIN run'.url_map
          /\ IsPrefix(run.files_meta, run'.files_meta)]_vars

\* the file of level 1 has its record while the fetch of the page of level
\* 1 is executing in a pool thread
C26_Witness ==
  /\ pc = "futures"
  /\ PageA \in run.running
  /\ Doc \in Manifest

(***************************************************************************)
(* C27.  Responses that are not pages.                                     *)
(***************************************************************************)
\* C27: the record of a URL whose response is not HTML by its Content-Type,
\* or whose mapped path has an extension other than .html and .htm, has the
\* response's type and the size of its raw bytes, and the URL is not parsed:
\* it is no visited page and has no rewritten document.
C27_NonHtmlIsTerminal ==
  \A i \in 1..Len(run.files_meta) :
    LET m == run.files_meta[i]
    IN  (\/ ContentType(m.url) # "text/html"
         \/ Suffix(url_to_relpath(website.url, m.url)) \notin {".html", ".htm"}) =>
          /\ m.content_type = ContentType(m.url)
          /\ m.size = Size(m.url)
          /\ m.url \notin run.visited_pages
          /\ m.url \notin DOMAIN run.html

(***************************************************************************)
(* C28.  What is in url_map when a page is rewritten.                      *)
(***************************************************************************)
\* the in-domain assets of page p that were fetched and saved, the network
\* having answered as env says
SavedAssets(p, env) ==
  {a \in Range(extract_links(p, website.include_images).assets) :
     InDomain(a) /\ fetch(env[a]).ok /\ SaveOk(env[a])}

\* C28: in the document saved for a page, every a, img, link and script
\* element whose URL is the page's own, that of an asset of the page that
\* was fetched and saved, or a key url_map had before the page was processed
\* has its attribute set to the local path.
C28_KnownLinksRewritten ==
  [][\A p \in DOMAIN run'.html \ DOMAIN run.html :
       \A l \in Targets(p) :
         (\/ l = p
          \/ l \in SavedAssets(p, run'.env)
          \/ l \in DOMAIN run.url_map) => l \in run'.html[p]]_vars

\* PageA was saved with its link to the seed, saved before it, and its image
\* rewritten, and PageB with its link to itself rewritten
C28_Witness ==
  /\ {PageA, PageB} \subseteq DOMAIN run.html
  /\ {Seed, Img} \subseteq run.html[PageA]
  /\ PageB \in run.html[PageB]

(***************************************************************************)
(* C29.  The retention pass of a run.                                      *)
(***************************************************************************)
\* C29: in a run_backup that returns its snapshot, the retention pass comes
\* after the Snapshot record was made and before the run returns, and the
\* snapshots the pass works on include the one the run has made.
C29_PassSeesNewSnapshot ==
  [][(pc = "retention" /\ pc' = "idle") =>
       /\ created = Len(snapshots)
       /\ result' = created
       /\ pass'.done
       /\ created \in Range(pass'.seen)]_vars

(***************************************************************************)
(* C30.  The prune step.                                                   *)
(***************************************************************************)
\* a retention pass is made in this step
PassStep == pc = "retention" \/ (pc = "idle" /\ quota' = quota)

\* C30: when the prune step of a pass is reached, it prunes every snapshot
\* beyond the limit in the list the pass works on, compressed or not and on
\* disk or not: the record of each is removed, and, unless a removal failed,
\* neither its directory nor its archive is left.
C30_PruneStep ==
  [][PassStep =>
       /\ pass'.raised = "none" =>
            pass'.pruned = Range(ToPrune(website, pass'.seen))
       /\ \A i \in pass'.pruned :
            /\ snapshots'[i].deleted
            /\ ~pass'.faulty =>
                 /\ snapshots'[i].ts \notin DOMAIN dirs'
                 /\ snapshots'[i].ts \notin DOMAIN zips']_vars

\* a pass has pruned two snapshots, one of which had neither a directory nor
\* an archive any more
C30_Witness ==
  /\ PassCompleted
  /\ Cardinality(pass.pruned) >= 2
  /\ pass.gone # {}
  /\ pass.gone # pass.pruned

(***************************************************************************)
(* C31.  What a run returns and what it committed.                         *)
(***************************************************************************)
\* run_backup on the active target returns in this step
Returns == pc # "idle" /\ pc' = "idle"

\* C31: the outcome of a run and its records agree: a run that committed a
\* Snapshot record returns that snapshot and leaves an "OK ..." status; a
\* run returns None, or leaves an "ERROR: ..." status, only when it committed
\* no Snapshot record.
C31_OutcomeAgreesWithRecords ==
  [][Returns =>
       IF created # 0
         THEN /\ result' = created
              /\ website'.last_status.text = "OK"
         ELSE /\ result' = 0
              /\ website'.last_status.text = "ERROR: "]_vars

(***************************************************************************)
(* C32.  The fetches of one crawl.                                         *)
(***************************************************************************)
\* C32: within one crawl each URL is fetched at most once: fetch is not
\* called again for a URL that it has already returned a response for, be it
\* a page, a resource that is not HTML, or an asset of a page.
C32_FetchedAtMostOnce ==
  \A u \in Urls : fetch(run.env[u]).ok => run.calls[u] <= 1

(***************************************************************************)
(* C33.  The URL map and the manifest that crawl_website returns.          *)
(***************************************************************************)
\* C33: when crawl_website returns, also after failed fetches and failed
\* writes, every URL of url_map has a record in files_meta with that URL and
\* the mapped relative path, whose file is in the snapshot directory, and
\* the URL of every record of files_meta is a key of url_map.
C33_MapAndManifestAgree ==
  pc = "crawled" =>
    /\ \A u \in DOMAIN run.url_map :
         /\ \E i \in 1..Len(run.files_meta) :
              /\ run.files_meta[i].url = u
              /\ run.files_meta[i].rel_path = run.url_map[u]
         /\ run.url_map[u] \in dirs[run.ts]
    /\ Manifest \subseteq DOMAIN run.url_map

(***************************************************************************)
(* C34.  What is on disk and what is on record.                            *)
(***************************************************************************)
\* C34: after any sequence of runs, failed or not, and of retention passes,
\* every snapshot directory and every snapshot archive on disk is that of a
\* Snapshot record that exists.
C34_NoOrphans ==
  pc = "idle" =>
    \A p \in DOMAIN dirs \cup DOMAIN zips :
      \E i \in Rows(snapshots) : snapshots[i].ts = p

(***************************************************************************)
(* C35.  The paths of the snapshots of one target.                         *)
(***************************************************************************)
\* C35: whatever the timing of the runs, two Snapshot records of the target
\* never have the same root path, and the directory a run writes into is
\* that of no other record.
C35_DistinctRootPaths ==
  /\ \A i, j \in Rows(snapshots) :
       i # j => snapshots[i].ts # snapshots[j].ts
  /\ pc # "idle" =>
       \A i \in Rows(snapshots) : i # created => snapshots[i].ts # run.ts

(***************************************************************************)
(* C36.  The newest snapshot and the limit (SpecLimits).                   *)
(***************************************************************************)
\* C36: whatever retention_limit is stored for the target, 0 and negative
\* numbers included, the limit a pass works with is at least 1: a pass does
\* not hand the most recently created snapshot of the target to
\* _delete_snapshot, its record is there after the pass, and so is the
\* record of the snapshot a run has made after the pass of that run.
C36_NewestSurvives ==
  [][PassStep =>
       /\ \A i \in Rows(snapshots) :
            (\A j \in Rows(snapshots) : j <= i) =>
              i \in Rows(snapshots') /\ i \notin pass'.pruned
       /\ pc = "retention" =>
            created \in Rows(snapshots') /\ created \notin pass'.pruned]_vars

\* a pass under a stored limit of -1 has pruned every snapshot but the newest
C36_Witness ==
  /\ PassCompleted
  /\ website.retention_limit \in NoLimits \ {0}
  /\ Cardinality(pass.pruned) >= 2
  /\ Cardinality(Rows(snapshots)) = 1
  /\ Rows(snapshots) \cap Range(pass.seen) # {}

(***************************************************************************)
(* C37.  run_backup with no active target (SpecInactive).                  *)
(***************************************************************************)
\* a run_backup call is made in this step
CallStep == pc = "idle" /\ quota' # quota

\* C37: a run_backup call for an id that is no target's, or for the target
\* when it is inactive, returns None and changes nothing: no directory, no
\* fetch, no Snapshot record, the same last_status and last_run_at, no
\* retention pass and no notification.
C37_NoTargetNoEffect ==
  [][(CallStep /\ (asked' # WebsiteId \/ ~website.active)) =>
       /\ result' = 0
       /\ pc' = "idle"
       /\ UNCHANGED <<website, coll, snapshots, dirs, zips, clock, run, created,
                      raised, pass, notifier>>]_vars

\* run_backup was called for the target, which is inactive and has snapshots
\* from the time it was active
C37_Witness ==
  /\ pc = "idle"
  /\ asked = WebsiteId
  /\ ~website.active
  /\ result = 0
  /\ Rows(snapshots) # {}

====
